---- MODULE Spec2Model ----
(***************************************************************************)
(* Equality-of-outcome approval pipeline (alpg00/solhacks).                *)
(*                                                                         *)
(* The model follows src/outcome_thresholds.py (calculate_approvals,       *)
(* print_statistics), src/outcome_data_processing.py                       *)
(* (get_grouped_applicants, display_statistics_table_and_graph) and        *)
(* src/outcome_main.py (run_pipeline).  Numbers are IEEE doubles in the    *)
(* program; here a finite double x is kept as the integer x * RateDen, so  *)
(* that every percentile of integer ratios at a rate a / RateDen is an     *)
(* integer, and the three non-finite doubles (nan, +inf, -inf) are kept as *)
(* values of their own with IEEE arithmetic and comparison.                *)
(***************************************************************************)
EXTENDS Integers, Sequences, FiniteSets, TLC

\* ------------------------------------------------------------------ bounds
\* approval_rate ranges over a / RateDen for a in -1 .. RateDen + 1
RateDen == 4
\* a numeric debt_to_income_ratio is one of 1 .. MaxRatio
MaxRatio == 2
\* applicants over all the groups of one call
MaxApplicants == 3
\* groups (keys of grouped_applicants) of one call
MaxCohorts == 2
\* rows of the CSV file of run_pipeline
MaxRows == 2
\* the all-numeric cohorts of NumericSpec: their size and their ratios
MaxMembers == 4
MaxFiniteRatio == 4

\* ------------------------------------------------------------------ strings
\* A Python string is the sequence of its characters.
UpperCase == <<"A", "B", "C", "D", "E", "F", "G", "H", "I", "J", "K", "L", "M", "N", "O", "P", "Q", "R", "S", "T", "U", "V", "W", "X", "Y", "Z">>
LowerCase == <<"a", "b", "c", "d", "e", "f", "g", "h", "i", "j", "k", "l", "m", "n", "o", "p", "q", "r", "s", "t", "u", "v", "w", "x", "y", "z">>
\* the characters of the model in code-point order
AsciiOrder == <<" ", "A", "B", "C", "D", "E", "F", "G", "H", "I", "J", "K", "L", "M", "N", "O", "P", "Q", "R", "S", "T", "U", "V", "W", "X", "Y", "Z", "_", "a", "b", "c", "d", "e", "f", "g", "h", "i", "j", "k", "l", "m", "n", "o", "p", "q", "r", "s", "t", "u", "v", "w", "x", "y", "z">>

CharIndex(alphabet, c) ==
  IF \E i \in 1..Len(alphabet) : alphabet[i] = c
    THEN CHOOSE i \in 1..Len(alphabet) : alphabet[i] = c
    ELSE 0

LowerChar(c) ==
  LET i == CharIndex(UpperCase, c) IN IF i > 0 THEN LowerCase[i] ELSE c

UpperChar(c) ==
  LET i == CharIndex(LowerCase, c) IN IF i > 0 THEN UpperCase[i] ELSE c

IsCased(c) == CharIndex(UpperCase, c) > 0 \/ CharIndex(LowerCase, c) > 0

\* str.lower()
Lower(s) == [i \in 1..Len(s) |-> LowerChar(s[i])]

\* str.title(): a cased character is upper-cased when it follows an uncased
\* one (or starts the string) and lower-cased otherwise
Title(s) ==
  [i \in 1..Len(s) |->
     IF i = 1 \/ ~IsCased(s[i - 1]) THEN UpperChar(s[i]) ELSE LowerChar(s[i])]

RECURSIVE LStrip(_)
LStrip(s) ==
  IF s # <<>> /\ Head(s) = " " THEN LStrip(Tail(s)) ELSE s

RECURSIVE RStrip(_)
RStrip(s) ==
  IF s # <<>> /\ s[Len(s)] = " " THEN RStrip(SubSeq(s, 1, Len(s) - 1)) ELSE s

\* str.strip()
Strip(s) == RStrip(LStrip(s))

\* s < t on strings (code-point order)
RECURSIVE StrLess(_, _)
StrLess(s, t) ==
  IF t = <<>> THEN FALSE
  ELSE IF s = <<>> THEN TRUE
  ELSE IF Head(s) = Head(t) THEN StrLess(Tail(s), Tail(t))
  ELSE CharIndex(AsciiOrder, Head(s)) < CharIndex(AsciiOrder, Head(t))

derived_ethnicity == <<"d", "e", "r", "i", "v", "e", "d", "_", "e", "t", "h", "n", "i", "c", "i", "t", "y">>
derived_race == <<"d", "e", "r", "i", "v", "e", "d", "_", "r", "a", "c", "e">>
derived_sex == <<"d", "e", "r", "i", "v", "e", "d", "_", "s", "e", "x">>
debt_to_income_ratio == <<"d", "e", "b", "t", "_", "t", "o", "_", "i", "n", "c", "o", "m", "e", "_", "r", "a", "t", "i", "o">>
id == <<"i", "d">>
hispanic_or_latino == <<"h", "i", "s", "p", "a", "n", "i", "c", " ", "o", "r", " ", "l", "a", "t", "i", "n", "o">>
Hispanic == <<"H", "i", "s", "p", "a", "n", "i", "c">>
\* str(float("nan")), what astype(str) makes of an empty cell
nan == <<"n", "a", "n">>

\* ------------------------------------------------------------ IEEE doubles
Fin(n) == [k |-> "fin", n |-> n]
NaN == [k |-> "nan", n |-> 0]
PInf == [k |-> "pinf", n |-> 0]
NInf == [k |-> "ninf", n |-> 0]

IsFinite(x) == x.k = "fin"

\* x <= y on doubles: false as soon as one side is nan
Leq(x, y) ==
  IF x.k = "nan" \/ y.k = "nan" THEN FALSE
  ELSE IF x.k = "ninf" \/ y.k = "pinf" THEN TRUE
  ELSE IF x.k = "pinf" \/ y.k = "ninf" THEN FALSE
  ELSE x.n <= y.n

Neg(x) ==
  IF x.k = "fin" THEN Fin(0 - x.n)
  ELSE IF x.k = "pinf" THEN NInf
  ELSE IF x.k = "ninf" THEN PInf
  ELSE NaN

\* x + y on doubles: inf + (-inf) is nan
Add(x, y) ==
  IF x.k = "nan" \/ y.k = "nan" THEN NaN
  ELSE IF x.k = "fin" /\ y.k = "fin" THEN Fin(x.n + y.n)
  ELSE IF x.k = "fin" THEN y
  ELSE IF y.k = "fin" THEN x
  ELSE IF x.k = y.k THEN x
  ELSE NaN

Sub(x, y) == Add(x, Neg(y))

\* x * (g / RateDen) on doubles: inf * 0 is nan.  Finite x is a multiple of
\* RateDen whenever it is a difference of ratios, so the division is exact.
Scale(x, g) ==
  IF x.k = "nan" THEN NaN
  ELSE IF x.k = "fin" THEN Fin((x.n * g) \div RateDen)
  ELSE IF g = 0 THEN NaN
  ELSE IF g > 0 THEN x
  ELSE Neg(x)

\* ------------------------------------------------------------- np.percentile
\* The order np.partition puts doubles in: -inf, the finite ones, +inf, nan.
Before(x, y) ==
  IF y.k = "nan" THEN TRUE
  ELSE IF x.k = "nan" THEN FALSE
  ELSE Leq(x, y)

RECURSIVE Insert(_, _)
Insert(s, x) ==
  IF s = <<>> THEN <<x>>
  ELSE IF Before(x, Head(s)) THEN <<x>> \o s
  ELSE <<Head(s)>> \o Insert(Tail(s), x)

\* the array left in the order of the applicants
Sorted_as_given(s) == s

RECURSIVE Sorted(_)
Sorted(s) == IF s = <<>> THEN <<>> ELSE Insert(Sorted(Tail(s)), Head(s))

\* the percentile method "lower": no interpolation
Lerp_lower(a, b, g) == a

\* the upper neighbour, whatever the fraction
Lerp_upper(a, b, g) == b

\* numpy's _lerp(a, b, t) with t = g / RateDen:
\*   a + (b - a) * t, replaced by b - (b - a) * (1 - t) where t >= 0.5
Lerp(a, b, g) ==
  LET diff == Sub(b, a)
  IN  IF 2 * g >= RateDen
        THEN Sub(b, Scale(diff, RateDen - g))
        ELSE Add(a, Scale(diff, g))

\* np.percentile(ratios, 100 * a / RateDen), method "linear", for a valid
\* rate and a non-empty array: nan if any element is nan; else the virtual
\* index is (n - 1) * a / RateDen, the two neighbours are the order
\* statistics at its floor and floor + 1, both the last one when the index
\* is n - 1 or more, and the result their _lerp.
Percentile(ratios, a) ==
  LET n == Len(ratios)
      v == Sorted(ratios)
      pn == (n - 1) * a
      k == pn \div RateDen
      above == pn >= (n - 1) * RateDen
      previous == IF above THEN v[n] ELSE v[k + 1]
      next == IF above THEN v[n] ELSE v[k + 2]
      gamma == IF above THEN pn + RateDen ELSE pn - k * RateDen
  IN  IF \E i \in 1..n : ratios[i].k = "nan" THEN NaN
      ELSE Lerp(previous, next, gamma)

\* np.percentile raises ValueError for a percentile outside [0, 100]
PercentileRaises(a) == ~(0 <= a /\ a <= RateDen)

\* ------------------------------------------------------- applicant records
\* A field of an applicant dict: absent, or holding a value.  A value of the
\* ratio field is a number 1 .. MaxRatio, a non-numeric string, None, or one
\* of the doubles nan, inf, -inf; a value of the id field is a number.
Absent == [kind |-> "absent", v |-> 0]
Num(n) == [kind |-> "num", v |-> n]
Text == [kind |-> "text", v |-> 0]
None == [kind |-> "none", v |-> 0]
NanCell == [kind |-> "nan", v |-> 0]
PInfCell == [kind |-> "pinf", v |-> 0]
NInfCell == [kind |-> "ninf", v |-> 0]

RatioCells ==
  {Num(n) : n \in 1..MaxRatio} \cup {Absent, Text, None, NanCell, PInfCell, NInfCell}

\* app[field]: KeyError when the dict has no such key
Subscript(cell) ==
  IF cell.kind = "absent" THEN [exc |-> "KeyError", val |-> NaN]
  ELSE [exc |-> "", val |-> NaN]

\* float(app[ratio_field]): KeyError for an absent key, ValueError for a
\* string that is no number, TypeError for None, and the double otherwise
\* (float accepts nan and the infinities)
Float(cell) ==
  IF cell.kind = "absent" THEN [exc |-> "KeyError", val |-> NaN]
  ELSE IF cell.kind = "text" THEN [exc |-> "ValueError", val |-> NaN]
  ELSE IF cell.kind = "none" THEN [exc |-> "TypeError", val |-> NaN]
  ELSE IF cell.kind = "nan" THEN [exc |-> "", val |-> NaN]
  ELSE IF cell.kind = "pinf" THEN [exc |-> "", val |-> PInf]
  ELSE IF cell.kind = "ninf" THEN [exc |-> "", val |-> NInf]
  ELSE [exc |-> "", val |-> Fin(cell.v * RateDen)]

\* ------------------------------------------------------ calculate_approvals
ratio_field == debt_to_income_ratio
id_field == id

\* no exception; an exception is its type, the group its message names (the
\* empty string when it names none) and the field or column it names
NoError == [type |-> "", group |-> <<>>, field |-> <<>>]

\* line 17 without its upper bound
RateInRange_no_upper(a) == 0 <= a

\* line 17: the rate is a / RateDen
RateInRange(a) == 0 <= a /\ a <= RateDen

\* lines 36-39: what the two handlers re-raise.  The KeyError message names
\* the missing field and no group; the ValueError message names the group.
Reraise(exc, group, field) ==
  IF exc = "KeyError"
    THEN [type |-> "KeyError", group |-> <<>>, field |-> field]
    ELSE [type |-> "ValueError", group |-> group, field |-> <<>>]

\* d.setdefault(key, value): the first value stored under a key stays
Store_first(d, key, value) ==
  [x \in DOMAIN d \cup {key} |-> IF x \in DOMAIN d THEN d[x] ELSE value]

\* d[key] = value on a dict
Store(d, key, value) ==
  [x \in DOMAIN d \cup {key} |-> IF x = key THEN value ELSE d[x]]

\* line 29: the first applicant whose float(app[ratio_field]) raises, or 0
RECURSIVE FirstBad(_, _)
FirstBad(applicants, i) ==
  IF i > Len(applicants) THEN 0
  ELSE IF Float(applicants[i].ratio).exc # "" THEN i
  ELSE FirstBad(applicants, i + 1)

\* line 35 with < for <=
Decide_strict(app_ratio, threshold) ==
  IF Leq(app_ratio, threshold) /\ ~Leq(threshold, app_ratio)
    THEN "approved" ELSE "denied"

\* line 35
Decide(app_ratio, threshold) ==
  IF Leq(app_ratio, threshold) THEN "approved" ELSE "denied"

\* lines 33-35: the decision loop from applicant i on; it stops at the first
\* applicant without an id (KeyError), keeping what it stored before
RECURSIVE DecideFrom(_, _, _, _)
DecideFrom(applicants, i, threshold, st) ==
  IF i > Len(applicants) THEN st
  ELSE IF Subscript(applicants[i].id).exc # ""
    THEN [st EXCEPT !.exc = "KeyError", !.field = id_field]
  ELSE DecideFrom(applicants, i + 1, threshold,
         [st EXCEPT !.decisions =
            Store(st.decisions, applicants[i].id.v,
                  Decide(Float(applicants[i].ratio).val, threshold))])

\* lines 24-39: one iteration of the loop over grouped_applicants.items(),
\* from the locals st = (decisions, group_thresholds) to the locals after
\* it and the exception it raises, if any
Iteration(st, group, applicants, a) ==
  LET bad == FirstBad(applicants, 1)
      ratios == [i \in 1..Len(applicants) |-> Float(applicants[i].ratio).val]
      threshold == Percentile(ratios, a)
      stored == [decisions |-> st.decisions,
                 group_thresholds |-> Store(st.group_thresholds, group, threshold),
                 exc |-> "", field |-> <<>>]
      after == DecideFrom(applicants, 1, threshold, stored)
  IN  IF applicants = <<>>
        THEN [decisions |-> st.decisions,
              group_thresholds |-> Store(st.group_thresholds, group, NInf),
              error |-> NoError]
      ELSE IF bad # 0
        THEN [decisions |-> st.decisions,
              group_thresholds |-> st.group_thresholds,
              error |-> Reraise(Float(applicants[bad].ratio).exc, group, ratio_field)]
      ELSE IF PercentileRaises(a)
        THEN [decisions |-> st.decisions,
              group_thresholds |-> st.group_thresholds,
              error |-> Reraise("ValueError", group, <<>>)]
      ELSE [decisions |-> after.decisions,
            group_thresholds |-> after.group_thresholds,
            error |-> IF after.exc = "" THEN NoError
                      ELSE Reraise(after.exc, group, after.field)]

\* lines 23-41: the loop from group i on; it stops at the first raise
RECURSIVE Loop(_, _, _, _)
Loop(grouped, i, st, a) ==
  IF i > Len(grouped)
    THEN [decisions |-> st.decisions, group_thresholds |-> st.group_thresholds,
          error |-> NoError]
    ELSE LET out == Iteration(st, grouped[i].group, grouped[i].applicants, a)
         IN  IF out.error # NoError THEN out
             ELSE Loop(grouped, i + 1,
                       [decisions |-> out.decisions,
                        group_thresholds |-> out.group_thresholds], a)

\* lines 17-41: the whole call, as the function of its arguments that the
\* actions RejectRate, EnterLoop, ProcessGroup and Return compute in steps
calculate_approvals(grouped, a) ==
  IF ~RateInRange(a)
    THEN [decisions |-> <<>>, group_thresholds |-> <<>>,
          error |-> [type |-> "ValueError", group |-> <<>>, field |-> <<>>]]
    ELSE Loop(grouped, 1, [decisions |-> <<>>, group_thresholds |-> <<>>], a)

\* --------------------------------------------------- get_grouped_applicants
\* The DataFrame read from the CSV file: the header as written in the file
\* and one sequence of cells per row.  A cell of a text column is a string
\* (an empty cell is read as NaN, which astype(str) turns into "nan"); a
\* cell of the ratio column is one of RatioCells (Absent: an empty cell); a
\* cell of the id column is a number.

\* the position of column `name` in columns, 0 when there is none
Col(columns, name) == CharIndex(columns, name)

\* the header names left as the file writes them
NormalizeHeader_as_written(h) == h

\* line 27: df.columns.str.strip().str.lower(), for one header name
NormalizeHeader(h) == Lower(Strip(h))

\* astype(str) of a cell of a text column: read_csv reads an empty field as
\* NaN, and str(NaN) is "nan"
AsStr(cell) == IF cell = <<>> THEN nan ELSE cell

\* range(len(df)) at the 1-based position i
RangeId_from_zero(i) == Num(i - 1)

\* line 37: range(1, len(df) + 1) at the 1-based position i
RangeId(i) == Num(i)

\* the override made as soon as the ethnicity starts with "hispanic"
Override_startswith(ethnicity, race) ==
  IF Len(ethnicity) >= Len(Hispanic)
       /\ SubSeq(ethnicity, 1, Len(Hispanic)) = Lower(Hispanic)
    THEN Hispanic ELSE race

\* lines 43-46: the lambda, on the ethnicity of line 40 and the race cell
Override(ethnicity, race) ==
  IF ethnicity = hispanic_or_latino THEN Hispanic ELSE race

\* every cell taken for a number
ToNumeric_keep(cell) == cell

\* pd.to_numeric(errors='coerce'): what is no number becomes NaN
ToNumeric(cell) ==
  IF cell.kind \in {"num", "pinf", "ninf"} THEN cell ELSE NanCell

\* the strings of S in ascending order, the order groupby yields its groups in
RECURSIVE SortKeys(_)
SortKeys(S) ==
  IF S = {} THEN <<>>
  ELSE LET m == CHOOSE x \in S : \A y \in S : x = y \/ StrLess(x, y)
       IN  <<m>> \o SortKeys(S \ {m})

\* the elements of s at the positions in keep, in order
RECURSIVE Select(_, _, _)
Select(s, keep, i) ==
  IF i > Len(s) THEN <<>>
  ELSE (IF i \in keep THEN <<s[i]>> ELSE <<>>) \o Select(s, keep, i + 1)

get_grouped_applicants(csv) ==
  LET \* line 27
      columns == [i \in 1..Len(csv.columns) |-> NormalizeHeader(csv.columns[i])]
      \* lines 30-33
      required == <<derived_ethnicity, derived_race, derived_sex>>
      absent == {i \in 1..3 : Col(columns, required[i]) = 0}
      first == CHOOSE i \in absent : \A j \in absent : i <= j
      n == Len(csv.rows)
      cell(i, name) == csv.rows[i][Col(columns, name)]
      \* lines 36-37
      id_of(i) == IF Col(columns, id) = 0 THEN RangeId(i) ELSE cell(i, id)
      \* line 40
      ethnicity(i) == Strip(Lower(AsStr(cell(i, derived_ethnicity))))
      \* lines 43-49
      race(i) == Title(AsStr(Override(ethnicity(i), cell(i, derived_race))))
      \* line 50
      sex(i) == Title(AsStr(cell(i, derived_sex)))
      \* lines 53-55
      has_ratio == Col(columns, debt_to_income_ratio) # 0
      ratio_of(i) == IF has_ratio THEN ToNumeric(cell(i, debt_to_income_ratio))
                     ELSE Absent
      kept == {i \in 1..n : ~has_ratio \/ ratio_of(i).kind # "nan"}
      \* line 62
      group(i) == race(i) \o <<" ">> \o sex(i)
      record(i) == [id |-> id_of(i), ratio |-> ratio_of(i)]
      records == [i \in 1..n |-> record(i)]
      \* lines 66-68
      keys == SortKeys({group(i) : i \in kept})
  IN  IF absent # {}
        THEN [error |-> [type |-> "ValueError", group |-> <<>>,
                         field |-> required[first]],
              grouped |-> <<>>]
        ELSE [error |-> NoError,
              grouped |-> [g \in 1..Len(keys) |->
                 [group |-> keys[g],
                  applicants |->
                    Select(records, {i \in kept : group(i) = keys[g]}, 1)]]]

\* --------------------------------------------------------- print_statistics
\* thresholds.get(group, float('-inf'))
Get(thresholds, group) ==
  IF group \in DOMAIN thresholds THEN thresholds[group] ELSE NInf

\* the count of line 57 with < for <=
Approved_strict(apps, threshold) ==
  Cardinality({i \in 1..Len(apps) :
                 /\ Leq(Float(apps[i].ratio).val, threshold)
                 /\ ~Leq(threshold, Float(apps[i].ratio).val)})

\* line 57 (and line 96 of outcome_data_processing.py)
Approved(apps, threshold) ==
  Cardinality({i \in 1..Len(apps) : Leq(Float(apps[i].ratio).val, threshold)})

\* lines 51-59: the row printed for each group.  The rate approved /
\* len(apps) is kept as the fraction num / den; the row of an empty group
\* prints the literals 0, N/A, 0 and 0%.
print_statistics(grouped, thresholds) ==
  [g \in 1..Len(grouped) |->
     LET apps == grouped[g].applicants
         threshold == Get(thresholds, grouped[g].group)
         approved == Approved(apps, threshold)
     IN  IF apps = <<>>
           THEN [group |-> grouped[g].group, applicants |-> 0,
                 max_ratio |-> [k |-> "N/A", n |-> 0], approved |-> 0,
                 rate |-> [num |-> 0, den |-> 1]]
           ELSE [group |-> grouped[g].group, applicants |-> Len(apps),
                 max_ratio |-> threshold, approved |-> approved,
                 rate |-> [num |-> approved, den |-> Len(apps)]]]

\* --------------------------------------- display_statistics_table_and_graph
\* outcome_data_processing.py lines 90-107: one entry of data per group that
\* has applicants, then the DataFrame sorted by "Group".  With no entry the
\* DataFrame has no column "Group" and sort_values raises KeyError.
display_statistics_table_and_graph(grouped, thresholds) ==
  LET shown == {g \in 1..Len(grouped) : grouped[g].applicants # <<>>}
      keys == SortKeys({grouped[g].group : g \in shown})
      entry(key) ==
        LET g == CHOOSE h \in shown : grouped[h].group = key
            apps == grouped[g].applicants
            threshold == Get(thresholds, key)
            approved == Approved(apps, threshold)
        IN  [group |-> key, applicants |-> Len(apps), max_ratio |-> threshold,
             approved |-> approved,
             rate |-> [num |-> approved, den |-> Len(apps)]]
  IN  IF shown = {}
        THEN [shown |-> TRUE, error |-> "KeyError", rows |-> <<>>]
        ELSE [shown |-> TRUE, error |-> "",
              rows |-> [k \in 1..Len(keys) |-> entry(keys[k])]]

\* ------------------------------------------------------------------ inputs
WhiteMale == <<"W", "h", "i", "t", "e", " ", "M", "a", "l", "e">>
AsianFemale == <<"A", "s", "i", "a", "n", " ", "F", "e", "m", "a", "l", "e">>
HispanicMale == <<"H", "i", "s", "p", "a", "n", "i", "c", " ", "M", "a", "l", "e">>
BlackFemale == <<"B", "l", "a", "c", "k", " ", "F", "e", "m", "a", "l", "e">>
Keys == <<WhiteMale, AsianFemale, HispanicMale, BlackFemale>>

Min(x, y) == IF x <= y THEN x ELSE y

RECURSIVE MaxId(_)
MaxId(apps) ==
  IF apps = <<>> THEN 0
  ELSE LET m == MaxId(Tail(apps))
           c == Head(apps).id
       IN  IF c.v > m THEN c.v ELSE m

\* The applicants of a direct call.  Each carries an id, as every record of
\* get_grouped_applicants does.  Ids are only ever compared for equality, so
\* every pattern of equal and distinct ids is given by the sequences in which
\* each id is at most one more than the ids before it.
RECURSIVE Applicants(_)
Applicants(m) ==
  IF m = 0 THEN {<<>>}
  ELSE UNION { { Append(s, [id |-> Num(i), ratio |-> r]) :
                   i \in 1..(MaxId(s) + 1), r \in RatioCells } :
               s \in Applicants(m - 1) }

\* the ways to cut a sequence into nc consecutive (possibly empty) pieces
RECURSIVE Cut(_, _)
Cut(s, nc) ==
  IF nc = 0 THEN IF s = <<>> THEN {<<>>} ELSE {}
  ELSE UNION { { <<SubSeq(s, 1, j)>> \o rest :
                   rest \in Cut(SubSeq(s, j + 1, Len(s)), nc - 1) } :
               j \in 0..Len(s) }

\* the dicts a caller hands to calculate_approvals, as the sequence of
\* their items
GroupedInputs ==
  UNION { UNION { { [i \in 1..nc |-> [group |-> Keys[i], applicants |-> parts[i]]] :
                      parts \in Cut(s, nc) } :
                  nc \in 0..Min(MaxCohorts, Len(Keys)) } :
          s \in UNION { Applicants(m) : m \in 0..MaxApplicants } }

Rates == (0 - 1)..(RateDen + 1)

\* The applicants of the calls whose statistics are reported: ratios that
\* float() accepts, and every pattern of equal and distinct ids.
RECURSIVE StatsApplicants(_)
StatsApplicants(m) ==
  IF m = 0 THEN {<<>>}
  ELSE UNION { { Append(s, [id |-> Num(i), ratio |-> r]) :
                   i \in 1..(MaxId(s) + 1),
                   r \in {Num(n) : n \in 1..MaxRatio} \cup {PInfCell, NanCell} } :
               s \in StatsApplicants(m - 1) }

\* The CSV files of run_pipeline: a header and 1 .. MaxRows rows.
PaddedHispanic == <<" ", "H", "i", "s", "p", "a", "n", "i", "c", " ", "o", "r", " ", "L", "a", "t", "i", "n", "o", " ">>
NotHispanic == <<"N", "o", "t", " ", "H", "i", "s", "p", "a", "n", "i", "c", " ", "o", "r", " ", "L", "a", "t", "i", "n", "o">>
white == <<"w", "h", "i", "t", "e">>
ASIAN == <<"A", "S", "I", "A", "N">>
Male == <<"M", "a", "l", "e">>
PaddedRaceHeader == <<" ", "D", "e", "r", "i", "v", "e", "d", "_", "R", "a", "c", "e", " ">>

Headers ==
  { <<id, derived_ethnicity, derived_race, derived_sex, debt_to_income_ratio>>,
    <<id, derived_ethnicity, PaddedRaceHeader, derived_sex, debt_to_income_ratio>>,
    <<derived_ethnicity, derived_race, derived_sex, debt_to_income_ratio>>,
    <<id, derived_ethnicity, derived_race, derived_sex>>,
    <<derived_ethnicity, derived_race, derived_sex>>,
    <<id, derived_ethnicity, derived_sex, debt_to_income_ratio>> }

\* the cells a row may hold in the column with header h
CellsOf(h) ==
  LET name == Lower(Strip(h))
  IN  IF name = id THEN {Num(i) : i \in 1..MaxRows}
      ELSE IF name = derived_ethnicity THEN {PaddedHispanic, NotHispanic}
      ELSE IF name = derived_race THEN {white, ASIAN}
      ELSE IF name = derived_sex THEN {Male}
      ELSE {Num(n) : n \in 1..MaxRatio} \cup {Text}

RECURSIVE RowsOf(_)
RowsOf(header) ==
  IF header = <<>> THEN {<<>>}
  ELSE { <<c>> \o rest : c \in CellsOf(Head(header)), rest \in RowsOf(Tail(header)) }

RECURSIVE Tables(_, _)
Tables(header, n) ==
  IF n = 0 THEN {<<>>}
  ELSE { Append(t, r) : t \in Tables(header, n - 1), r \in RowsOf(header) }

CsvInputs ==
  UNION { { [columns |-> h, rows |-> t] :
              t \in UNION { Tables(h, n) : n \in 1..MaxRows } } :
          h \in Headers }

NoCsv == [columns |-> <<>>, rows |-> <<>>]

\* The CSV files given to the normalizer alone: text cells that differ in
\* case and in surrounding blanks, an ethnicity that only starts with
\* "hispanic", empty race fields, and headers lacking a column.
Hispanicky == <<"H", "i", "s", "p", "a", "n", "i", "c", "k", "y">>
PaddedWhite == <<" ", "W", "h", "i", "t", "e", " ">>
MALE == <<"M", "A", "L", "E">>
EmptyField == <<>>

NormalizerHeaders ==
  { <<id, derived_ethnicity, derived_race, derived_sex, debt_to_income_ratio>>,
    <<derived_ethnicity, PaddedRaceHeader, derived_sex, debt_to_income_ratio>>,
    <<id, derived_ethnicity, derived_race, derived_sex>>,
    <<id, derived_ethnicity, derived_sex, debt_to_income_ratio>>,
    <<id, derived_race, derived_sex, debt_to_income_ratio>>,
    <<id, derived_ethnicity, derived_race, debt_to_income_ratio>> }

\* the cells a row may hold in the column with header h
NormalizerCellsOf(h) ==
  LET name == Lower(Strip(h))
  IN  IF name = id THEN {Num(i) : i \in 1..MaxRows}
      ELSE IF name = derived_ethnicity THEN {PaddedHispanic, NotHispanic, Hispanicky}
      ELSE IF name = derived_race THEN {white, PaddedWhite, ASIAN, EmptyField}
      ELSE IF name = derived_sex THEN {MALE}
      ELSE {Num(1), Text, Absent, PInfCell}

RECURSIVE NormalizerRowsOf(_)
NormalizerRowsOf(header) ==
  IF header = <<>> THEN {<<>>}
  ELSE { <<c>> \o rest : c \in NormalizerCellsOf(Head(header)),
                         rest \in NormalizerRowsOf(Tail(header)) }

\* the files with header h and n rows
NormalizerFiles(h, n) ==
  { [columns |-> h, rows |-> t] : t \in [1..n -> NormalizerRowsOf(h)] }

\* ------------------------------------------------------------------- state
VARIABLES
  input_csv,          \* run_pipeline: the file read, NoCsv for a direct call
  ppc,                \* run_pipeline: where it is, "none" for a direct call
  printed,            \* run_pipeline: the rows print_statistics printed
  output_json,        \* run_pipeline: the decisions file
  result,             \* run_pipeline: what it returned
  grouped_applicants, \* calculate_approvals: its argument
  approval_rate,      \* the rate is approval_rate / RateDen
  pc,                 \* calculate_approvals: where it is
  idx,                \* calculate_approvals: the groups iterated over so far
  decisions,          \* calculate_approvals: the local dict
  group_thresholds,   \* calculate_approvals: the local dict
  raised,             \* the exception propagating, NoError when none
  returned,           \* calculate_approvals: what it returned
  displayed           \* display_statistics_table_and_graph: its table

vars == <<input_csv, ppc, printed, output_json, result, grouped_applicants,
          approval_rate, pc, idx, decisions, group_thresholds, raised, returned,
          displayed>>

\* what calculate_approvals leaves alone: the variables of its callers
pipeline_vars == <<input_csv, ppc, printed, output_json, result, displayed>>

NoReturn == [delivered |-> FALSE, decisions |-> <<>>, group_thresholds |-> <<>>]
NoFile == [written |-> FALSE, decisions |-> <<>>]
NoDisplay == [shown |-> FALSE, error |-> "", rows |-> <<>>]

\* a direct call of calculate_approvals, or a call of run_pipeline
Init ==
  /\ approval_rate \in Rates
  /\ \/ /\ grouped_applicants \in GroupedInputs
        /\ input_csv = NoCsv
        /\ ppc = "none"
        /\ pc = "call"
     \/ /\ input_csv \in CsvInputs
        /\ grouped_applicants = <<>>
        /\ ppc = "normalize"
        /\ pc = "idle"
  /\ printed = <<>>
  /\ output_json = NoFile
  /\ result = "none"
  /\ idx = 0
  /\ decisions = <<>>
  /\ group_thresholds = <<>>
  /\ raised = NoError
  /\ returned = NoReturn
  /\ displayed = NoDisplay

\* ------------------------------------------------------ calculate_approvals
\* lines 17-18
RejectRate ==
  /\ pc = "call"
  /\ ~RateInRange(approval_rate)
  /\ pc' = "raised"
  /\ raised' = [type |-> "ValueError", group |-> <<>>, field |-> <<>>]
  /\ UNCHANGED <<grouped_applicants, approval_rate, idx, decisions,
                 group_thresholds, returned>>
  /\ UNCHANGED pipeline_vars

\* lines 20-21
EnterLoop ==
  /\ pc = "call"
  /\ RateInRange(approval_rate)
  /\ pc' = "loop"
  /\ decisions' = <<>>
  /\ group_thresholds' = <<>>
  /\ UNCHANGED <<grouped_applicants, approval_rate, idx, raised, returned>>
  /\ UNCHANGED pipeline_vars

\* lines 23-39: one iteration, to the next group or to the raise
ProcessGroup ==
  /\ pc = "loop"
  /\ idx < Len(grouped_applicants)
  /\ LET item == grouped_applicants[idx + 1]
         out == Iteration([decisions |-> decisions,
                           group_thresholds |-> group_thresholds],
                          item.group, item.applicants, approval_rate)
     IN  /\ decisions' = out.decisions
         /\ group_thresholds' = out.group_thresholds
         /\ raised' = out.error
         /\ pc' = IF out.error = NoError THEN "loop" ELSE "raised"
         /\ idx' = IF out.error = NoError THEN idx + 1 ELSE idx
  /\ UNCHANGED <<grouped_applicants, approval_rate, returned>>
  /\ UNCHANGED pipeline_vars

\* line 41
Return ==
  /\ pc = "loop"
  /\ idx = Len(grouped_applicants)
  /\ pc' = "returned"
  /\ returned' = [delivered |-> TRUE, decisions |-> decisions,
                  group_thresholds |-> group_thresholds]
  /\ UNCHANGED <<grouped_applicants, approval_rate, idx, decisions,
                 group_thresholds, raised>>
  /\ UNCHANGED pipeline_vars

\* ------------------------------------------------------------- run_pipeline
\* outcome_main.py line 8: the groups, or the exception of the normalizer
GetGroupedApplicants ==
  /\ ppc = "normalize"
  /\ LET out == get_grouped_applicants(input_csv)
     IN  IF out.error = NoError
           THEN /\ grouped_applicants' = out.grouped
                /\ ppc' = "calculate"
                /\ pc' = "call"
                /\ raised' = raised
           ELSE /\ grouped_applicants' = grouped_applicants
                /\ ppc' = "except"
                /\ pc' = pc
                /\ raised' = out.error
  /\ UNCHANGED <<input_csv, printed, output_json, result, approval_rate, idx,
                 decisions, group_thresholds, returned, displayed>>

\* outcome_main.py lines 17-18, once calculate_approvals has returned
PrintStatistics ==
  /\ ppc = "calculate"
  /\ pc = "returned"
  /\ printed' = print_statistics(grouped_applicants, returned.group_thresholds)
  /\ ppc' = "write"
  /\ UNCHANGED <<input_csv, output_json, result, grouped_applicants,
                 approval_rate, pc, idx, decisions, group_thresholds, raised,
                 returned, displayed>>

\* outcome_main.py lines 20-22 and 27
WriteDecisions ==
  /\ ppc = "write"
  /\ output_json' = [written |-> TRUE, decisions |-> returned.decisions]
  /\ ppc' = "done"
  /\ result' = "True"
  /\ UNCHANGED <<input_csv, printed, grouped_applicants, approval_rate, pc, idx,
                 decisions, group_thresholds, raised, returned, displayed>>

\* the handler dumping the decisions made so far
Except_writes ==
  /\ ppc = "except" \/ (ppc = "calculate" /\ pc = "raised")
  /\ ppc' = "done"
  /\ result' = "False"
  /\ output_json' = [written |-> TRUE, decisions |-> decisions]
  /\ UNCHANGED <<input_csv, printed, grouped_applicants, approval_rate, pc,
                 idx, decisions, group_thresholds, raised, returned, displayed>>

\* outcome_main.py lines 24-26: any exception of the try block
Except ==
  /\ ppc = "except" \/ (ppc = "calculate" /\ pc = "raised")
  /\ ppc' = "done"
  /\ result' = "False"
  /\ UNCHANGED <<input_csv, printed, output_json, grouped_applicants,
                 approval_rate, pc, idx, decisions, group_thresholds, raised,
                 returned, displayed>>

Next ==
  \/ RejectRate
  \/ EnterLoop
  \/ ProcessGroup
  \/ Return
  \/ GetGroupedApplicants
  \/ PrintStatistics
  \/ WriteDecisions
  \/ Except

Spec == Init /\ [][Next]_vars

\* A cohort of numeric ratios only, with the ids 1 .. n the normalizer
\* gives, and a rate in range: the inputs of the percentile arithmetic.
RECURSIVE NumericApplicants(_)
NumericApplicants(m) ==
  IF m = 0 THEN {<<>>}
  ELSE { Append(s, [id |-> Num(m), ratio |-> Num(r)]) :
           s \in NumericApplicants(m - 1), r \in 1..MaxFiniteRatio }

NumericInit ==
  /\ approval_rate \in 0..RateDen
  /\ \E m \in 0..MaxMembers : \E apps \in NumericApplicants(m) :
       grouped_applicants = <<[group |-> WhiteMale, applicants |-> apps]>>
  /\ input_csv = NoCsv
  /\ ppc = "none"
  /\ pc = "call"
  /\ printed = <<>>
  /\ output_json = NoFile
  /\ result = "none"
  /\ idx = 0
  /\ decisions = <<>>
  /\ group_thresholds = <<>>
  /\ raised = NoError
  /\ returned = NoReturn
  /\ displayed = NoDisplay

NumericNext == EnterLoop \/ ProcessGroup \/ Return

NumericSpec == NumericInit /\ [][NumericNext]_vars

\* The normalizer alone, as run_pipeline calls it, up to the handler that
\* catches its exception.
NormalizerInit ==
  /\ \E h \in NormalizerHeaders : \E n \in 1..MaxRows :
       input_csv \in NormalizerFiles(h, n)
  /\ approval_rate = RateDen \div 2
  /\ grouped_applicants = <<>>
  /\ ppc = "normalize"
  /\ pc = "idle"
  /\ printed = <<>>
  /\ output_json = NoFile
  /\ result = "none"
  /\ idx = 0
  /\ decisions = <<>>
  /\ group_thresholds = <<>>
  /\ raised = NoError
  /\ returned = NoReturn
  /\ displayed = NoDisplay

NormalizerNext == GetGroupedApplicants \/ Except

NormalizerSpec == NormalizerInit /\ [][NormalizerNext]_vars

\* ------------------------------------------- the statistics, called directly
\* print_statistics on the groups and the thresholds of a returned call
CallPrintStatistics ==
  /\ ppc = "none"
  /\ pc = "returned"
  /\ printed' = print_statistics(grouped_applicants, returned.group_thresholds)
  /\ UNCHANGED <<input_csv, ppc, output_json, result, grouped_applicants,
                 approval_rate, pc, idx, decisions, group_thresholds, raised,
                 returned, displayed>>

\* display_statistics_table_and_graph on the same arguments
DisplayStatistics ==
  /\ ppc = "none"
  /\ pc = "returned"
  /\ displayed' = display_statistics_table_and_graph(grouped_applicants,
                                                      returned.group_thresholds)
  /\ UNCHANGED <<input_csv, ppc, printed, output_json, result,
                 grouped_applicants, approval_rate, pc, idx, decisions,
                 group_thresholds, raised, returned>>

\* a call of calculate_approvals that returns, followed by the statistics
StatsInit ==
  /\ approval_rate \in 0..RateDen
  /\ \E m \in 0..MaxApplicants : \E s \in StatsApplicants(m) :
       \E nc \in 0..Min(MaxCohorts, Len(Keys)) : \E parts \in Cut(s, nc) :
         grouped_applicants =
           [i \in 1..nc |-> [group |-> Keys[i], applicants |-> parts[i]]]
  /\ input_csv = NoCsv
  /\ ppc = "none"
  /\ pc = "call"
  /\ printed = <<>>
  /\ output_json = NoFile
  /\ result = "none"
  /\ idx = 0
  /\ decisions = <<>>
  /\ group_thresholds = <<>>
  /\ raised = NoError
  /\ returned = NoReturn
  /\ displayed = NoDisplay

StatsNext ==
  \/ EnterLoop
  \/ ProcessGroup
  \/ Return
  \/ CallPrintStatistics
  \/ DisplayStatistics

StatsSpec == StatsInit /\ [][StatsNext]_vars

\* ------------------------------------------------------------------ claims
\* the groups of the call that have applicants
NonEmpty == {g \in 1..Len(grouped_applicants) : grouped_applicants[g].applicants # <<>>}

Apps(g) == grouped_applicants[g].applicants

\* the double held by the ratio field of applicant i of group g
RatioOf(g, i) == Float(Apps(g)[i].ratio).val

\* applicant (g, i) comes before applicant (h, j) in the iteration
Earlier(g, i, h, j) == g < h \/ (g = h /\ i < j)

\* no later applicant carries the id of applicant (g, i)
LastOfId(g, i) ==
  \A h \in NonEmpty : \A j \in 1..Len(Apps(h)) :
    Earlier(g, i, h, j) => Apps(h)[j].id # Apps(g)[i].id

\* C1 (as claimed): after a successful return, for every applicant of every
\* non-empty group, the decision stored under the applicant's id is
\* "approved" if and only if the applicant's ratio is <= the group's threshold.
C1_EveryRecordDecidedByThreshold ==
  pc = "returned" =>
    \A g \in NonEmpty : \A i \in 1..Len(Apps(g)) :
      (returned.decisions[Apps(g)[i].id.v] = "approved")
        <=> Leq(RatioOf(g, i), returned.group_thresholds[grouped_applicants[g].group])

\* C1 (amended): the same, for every applicant whose id no later applicant
\* carries; with pairwise distinct ids that is every applicant.
C1_LastRecordDecidedByThreshold ==
  pc = "returned" =>
    \A g \in NonEmpty : \A i \in 1..Len(Apps(g)) :
      LastOfId(g, i) =>
        /\ returned.decisions[Apps(g)[i].id.v] \in {"approved", "denied"}
        /\ (returned.decisions[Apps(g)[i].id.v] = "approved")
             <=> Leq(RatioOf(g, i),
                     returned.group_thresholds[grouped_applicants[g].group])

\* C1 witness: a returned call in which one applicant's ratio equals the
\* threshold and is approved, and another applicant of the group is denied.
C1_Witness ==
  /\ pc = "returned"
  /\ \E g \in NonEmpty : \E i, j \in 1..Len(Apps(g)) :
       /\ LastOfId(g, i) /\ LastOfId(g, j)
       /\ IsFinite(RatioOf(g, i))
       /\ RatioOf(g, i) = returned.group_thresholds[grouped_applicants[g].group]
       /\ returned.decisions[Apps(g)[i].id.v] = "approved"
       /\ returned.decisions[Apps(g)[j].id.v] = "denied"

\* the k-th smallest (k = 0, 1, ...) of the numeric ratios of apps, found by
\* counting
OrderStatistic(apps, k) ==
  CHOOSE x \in {apps[i].ratio.v : i \in 1..Len(apps)} :
    /\ Cardinality({i \in 1..Len(apps) : apps[i].ratio.v < x}) <= k
    /\ k < Cardinality({i \in 1..Len(apps) : apps[i].ratio.v <= x})

AllNumeric(apps) == \A i \in 1..Len(apps) : apps[i].ratio.kind = "num"

\* RateDen times the linear-interpolation percentile of the claim: with
\* p = (n - 1) * r and k = floor(p), v[k] + (p - k) * (v[k+1] - v[k]), and
\* v[k] when p is an integer
ClaimedThreshold(apps, a) ==
  LET n == Len(apps)
      pn == (n - 1) * a
      k == pn \div RateDen
      frac == pn - k * RateDen
  IN  IF frac = 0 THEN OrderStatistic(apps, k) * RateDen
      ELSE OrderStatistic(apps, k) * RateDen
             + frac * (OrderStatistic(apps, k + 1) - OrderStatistic(apps, k))

C3_BadRateFailsFirst ==
  ((approval_rate < 0 \/ approval_rate > RateDen) /\ pc \notin {"idle", "call"}) =>
    /\ pc = "raised"
    /\ raised = [type |-> "ValueError", group |-> <<>>, field |-> <<>>]
    /\ idx = 0
    /\ decisions = <<>>
    /\ group_thresholds = <<>>
    /\ returned = NoReturn

\* C3 witness: the call was rejected for its rate although its first group
\* holds a record without the ratio field.
C3_Witness ==
  /\ pc = "raised"
  /\ approval_rate > RateDen
  /\ Len(grouped_applicants) > 0
  /\ Apps(1) # <<>>
  /\ Apps(1)[1].ratio = Absent
  /\ raised.type = "ValueError"

Threshold(g) == returned.group_thresholds[grouped_applicants[g].group]

\* C4 (as claimed): on a successful return the thresholds have an entry for
\* every group, negative infinity exactly for the groups without applicants,
\* and the decisions have exactly the ids of the applicants of the non-empty
\* groups as keys and "approved" or "denied" as values.
C4_ThresholdsAndDecisionsCover ==
  pc = "returned" =>
    /\ DOMAIN returned.group_thresholds
         = {grouped_applicants[g].group : g \in 1..Len(grouped_applicants)}
    /\ \A g \in 1..Len(grouped_applicants) : (Threshold(g) = NInf) <=> (Apps(g) = <<>>)
    /\ DOMAIN returned.decisions
         = UNION { {Apps(g)[i].id.v : i \in 1..Len(Apps(g))} : g \in NonEmpty }
    /\ \A k \in DOMAIN returned.decisions :
         returned.decisions[k] \in {"approved", "denied"}

\* the group the call stopped at
Current == grouped_applicants[idx + 1]

\* the call was in the loop and raised at the group Current
RaisedInLoop == pc = "raised" /\ 0 <= approval_rate /\ approval_rate <= RateDen

\* C5 (as claimed): when the call stops at a group because one of its
\* applicants lacks the ratio field, the error identifies that group by its
\* key.
C5_MissingFieldNamesGroup ==
  (/\ RaisedInLoop
   /\ FirstBad(Current.applicants, 1) # 0
   /\ Current.applicants[FirstBad(Current.applicants, 1)].ratio = Absent)
    => raised.group = Current.group

NotCoercible == {"text", "none", "nan", "pinf", "ninf"}

\* C6 (as claimed): a group with an applicant whose ratio is no finite
\* number (text, None, nan, inf, -inf) is never given a threshold and
\* decisions: the call stops at it with an error that names it.
C6_NonFiniteRatioNamesGroup ==
  /\ \A g \in 1..Len(grouped_applicants) :
       (\E i \in 1..Len(Apps(g)) : Apps(g)[i].ratio.kind \in NotCoercible)
         => grouped_applicants[g].group \notin DOMAIN group_thresholds
  /\ (/\ RaisedInLoop
      /\ \E i \in 1..Len(Current.applicants) :
           Current.applicants[i].ratio.kind \in NotCoercible
      /\ \A i \in 1..Len(Current.applicants) :
           Current.applicants[i].ratio # Absent)
       => raised.group = Current.group

\* C7: a failed threshold computation delivers nothing: calculate_approvals
\* returns neither decisions nor thresholds, run_pipeline returns False and
\* writes no decisions file; the file is written only after the normalizer,
\* calculate_approvals and print_statistics have all succeeded.
C7_NoPartialResult ==
  /\ pc = "raised" => returned = NoReturn
  /\ raised # NoError => output_json = NoFile /\ result # "True" /\ printed = <<>>
  /\ (ppc = "done" /\ raised # NoError) => result = "False"
  /\ output_json.written =>
       /\ get_grouped_applicants(input_csv).error = NoError
       /\ pc = "returned"
       /\ raised = NoError
       /\ Len(printed) = Len(grouped_applicants)
       /\ output_json.decisions = returned.decisions
       /\ result = "True"

\* C7 witness: run_pipeline has returned False, without a file, because
\* calculate_approvals raised in its loop.
C7_Witness ==
  /\ ppc = "done"
  /\ RaisedInLoop
  /\ result = "False"
  /\ output_json = NoFile

\* the doubles of the ratio fields of apps
Ratios(apps) == [i \in 1..Len(apps) |-> Float(apps[i].ratio).val]

\* C8 (as claimed): for every non-empty group, the number of applicants
\* approved at the rate of the call is at most the number approved at any
\* higher rate in [0,1].
C8_ApprovedCountMonotone ==
  pc = "returned" =>
    \A g \in NonEmpty : \A a2 \in approval_rate..RateDen :
      Approved(Apps(g), Threshold(g))
        <= Approved(Apps(g), Percentile(Ratios(Apps(g)), a2))

\* x == y on doubles
Eq(x, y) == Leq(x, y) /\ Leq(y, x)

\* C9 (as claimed): in every non-empty group with an applicant whose ratio
\* equals the threshold, approved / size >= r.
C9_TieRateAtLeastTarget ==
  pc = "returned" =>
    \A g \in NonEmpty :
      (\E i \in 1..Len(Apps(g)) : Eq(RatioOf(g, i), Threshold(g)))
        => Approved(Apps(g), Threshold(g)) * RateDen >= approval_rate * Len(Apps(g))

\* the orders the elements of s can be put in
RECURSIVE Orderings(_)
Orderings(s) ==
  IF s = <<>> THEN {<<>>}
  ELSE UNION { { <<s[i]>> \o rest :
                   rest \in Orderings(SubSeq(s, 1, i - 1) \o SubSeq(s, i + 1, Len(s))) } :
               i \in 1..Len(s) }

\* grouped with the applicants of each group put in every order
RECURSIVE MembersPermuted(_)
MembersPermuted(grouped) ==
  IF grouped = <<>> THEN {<<>>}
  ELSE { <<[group |-> Head(grouped).group, applicants |-> apps]>> \o rest :
           apps \in Orderings(Head(grouped).applicants),
           rest \in MembersPermuted(Tail(grouped)) }

\* grouped with its groups, and the applicants of each group, in every order
Rearrangements(grouped) ==
  UNION { Orderings(q) : q \in MembersPermuted(grouped) }

\* no two applicants of the call carry the same id
IdsDistinct ==
  \A g, h \in NonEmpty : \A i \in 1..Len(Apps(g)) : \A j \in 1..Len(Apps(h)) :
    Apps(g)[i].id = Apps(h)[j].id => (g = h /\ i = j)

\* C10 (as claimed): the call on the groups in another order, or with the
\* applicants of a group in another order, returns the same thresholds and
\* the same decisions.
C10_OrderIndependent ==
  pc = "returned" =>
    \A q \in Rearrangements(grouped_applicants) :
      LET out == calculate_approvals(q, approval_rate)
      IN  /\ out.error = NoError
          /\ out.group_thresholds = returned.group_thresholds
          /\ out.decisions = returned.decisions

\* C10 (amended): the thresholds are the same in every order, and so are the
\* decisions when no two applicants carry the same id; the threshold of a
\* group, and with distinct ids the decisions of its applicants, are those of
\* the call on that group alone.
C10_OrderIndependentForDistinctIds ==
  pc = "returned" =>
    /\ \A q \in Rearrangements(grouped_applicants) :
         LET out == calculate_approvals(q, approval_rate)
         IN  /\ out.error = NoError
             /\ out.group_thresholds = returned.group_thresholds
             /\ IdsDistinct => out.decisions = returned.decisions
    /\ \A g \in 1..Len(grouped_applicants) :
         LET alone == calculate_approvals(<<grouped_applicants[g]>>, approval_rate)
         IN  /\ alone.error = NoError
             /\ alone.group_thresholds[grouped_applicants[g].group] = Threshold(g)
             /\ IdsDistinct =>
                  \A k \in DOMAIN alone.decisions :
                    alone.decisions[k] = returned.decisions[k]

\* C10 witness: a returned call on two groups with applicants, one of them
\* holding two different ratios in descending order, all ids distinct.
C10_Witness ==
  /\ pc = "returned"
  /\ IdsDistinct
  /\ Len(grouped_applicants) = 2
  /\ Len(Apps(1)) = 2
  /\ Len(Apps(2)) = 1
  /\ AllNumeric(Apps(1))
  /\ Apps(1)[1].ratio.v > Apps(1)[2].ratio.v
  /\ returned.decisions[Apps(1)[1].id.v] = "denied"
  /\ returned.decisions[Apps(1)[2].id.v] = "approved"

\* -------------------------------------------------- claims: the normalizer
\* the header of the file read, each name stripped and lower-cased
HeaderNames ==
  [c \in 1..Len(input_csv.columns) |-> Lower(Strip(input_csv.columns[c]))]

HasColumn(name) == \E c \in 1..Len(input_csv.columns) : HeaderNames[c] = name

\* the cell of row i in the column called name, as the file holds it
Raw(i, name) ==
  input_csv.rows[i][CHOOSE c \in 1..Len(input_csv.columns) : HeaderNames[c] = name]

RowCount == Len(input_csv.rows)

Required == {derived_ethnicity, derived_race, derived_sex}

SchemaComplete == \A name \in Required : HasColumn(name)

\* get_grouped_applicants has been called on a file
Normalized == ppc # "normalize" /\ input_csv # NoCsv

\* the exception of lines 31-33 is propagating or was caught
SchemaError == raised.type = "ValueError" /\ raised.field \in Required

\* the id the records of row i carry
RowId(i) == IF HasColumn(id) THEN Raw(i, id).v ELSE i

\* no two rows carry the same id, so that a record is the record of one row
Traceable == \A i, j \in 1..RowCount : i # j => RowId(i) # RowId(j)

\* the cohorts holding a record of row i
CohortsHolding(i) ==
  {g \in 1..Len(grouped_applicants) :
     \E j \in 1..Len(Apps(g)) : Apps(g)[j].id.v = RowId(i)}

\* the ethnicity of row i is "hispanic or latino" up to case and blanks
ExactlyHispanic(i) ==
  Strip(Lower(Raw(i, derived_ethnicity))) = hispanic_or_latino

\* the cohort key of a race and a sex
KeyOf(race, sex) == Title(race) \o <<" ">> \o Title(sex)

\* C11: a record's cohort race is overridden to "Hispanic" exactly when its
\* ethnicity, lower-cased and trimmed, is "hispanic or latino"; any other
\* ethnicity, also one that starts with "hispanic", leaves the record under
\* its own race.
C11_OverrideIsExactMatch ==
  (ppc = "calculate" /\ Traceable) =>
    \A i \in 1..RowCount : \A g \in CohortsHolding(i) :
      LET key == grouped_applicants[g].group
      IN  IF ExactlyHispanic(i)
            THEN key = KeyOf(Hispanic, Raw(i, derived_sex))
            ELSE Raw(i, derived_race) # EmptyField =>
                   key = KeyOf(Raw(i, derived_race), Raw(i, derived_sex))

\* " Hispanic or Latino " and "Hispanicky", both of race white, in one file
C11_Witness ==
  /\ ppc = "calculate"
  /\ RowCount = 2
  /\ Traceable
  /\ Raw(1, derived_ethnicity) = PaddedHispanic
  /\ Raw(2, derived_ethnicity) = Hispanicky
  /\ Raw(1, derived_race) = white
  /\ Raw(2, derived_race) = white
  /\ \E g \in CohortsHolding(1) : grouped_applicants[g].group = HispanicMale
  /\ \E g \in CohortsHolding(2) : grouped_applicants[g].group = WhiteMale

\* rows i and j differ in race and sex by case and surrounding blanks only
SameUpToSurface(i, j) ==
  /\ Lower(Strip(Raw(i, derived_race))) = Lower(Strip(Raw(j, derived_race)))
  /\ Lower(Strip(Raw(i, derived_sex))) = Lower(Strip(Raw(j, derived_sex)))

\* C12: two records with the same override outcome whose race and sex
\* differ only in letter case or in leading/trailing blanks are in the same
\* cohort.
C12_SurfaceVariantsShareCohort ==
  (ppc = "calculate" /\ Traceable) =>
    \A i, j \in 1..RowCount :
      (/\ CohortsHolding(i) # {}
       /\ CohortsHolding(j) # {}
       /\ ExactlyHispanic(i) = ExactlyHispanic(j)
       /\ SameUpToSurface(i, j))
      => CohortsHolding(i) = CohortsHolding(j)

\* C13: the normalizer fails with the schema error, and produces no cohorts,
\* exactly when one of the three required names is not among the header
\* names once these are lower-cased and stripped.
C13_SchemaErrorIffColumnAbsent ==
  Normalized =>
    ((SchemaError /\ grouped_applicants = <<>> /\ ppc \in {"except", "done"})
       <=> ~SchemaComplete)

\* a file without the derived_race column, rejected with the error naming it
C13_Witness ==
  /\ ppc = "except"
  /\ ~HasColumn(derived_race)
  /\ HasColumn(derived_ethnicity)
  /\ raised = [type |-> "ValueError", group |-> <<>>, field |-> derived_race]
  /\ grouped_applicants = <<>>

\* C14: when one row has no derived_race value and every other row has one,
\* the normalizer raises the schema error.
C14_MissingRaceValueRaises ==
  (/\ Normalized
   /\ SchemaComplete
   /\ Cardinality({i \in 1..RowCount : Raw(i, derived_race) = EmptyField}) = 1)
  => SchemaError

\* row i is among the rows left after line 55
Survives(i) ==
  HasColumn(debt_to_income_ratio) =>
    Raw(i, debt_to_income_ratio).kind \in {"num", "pinf", "ninf"}

\* the cohort key of row i
ExpectedKey(i) ==
  KeyOf(IF ExactlyHispanic(i) THEN Hispanic ELSE AsStr(Raw(i, derived_race)),
        Raw(i, derived_sex))

\* the records returned, each as <<cohort, position>>
Records ==
  {p \in (1..Len(grouped_applicants)) \X (1..MaxRows + 1) :
     p[2] <= Len(Apps(p[1]))}

\* C15: without an id column, the record of the row at 1-based position i
\* carries the id i: every record's id is the position of a surviving row
\* whose ratio and cohort it has, and every surviving row has exactly one
\* record, so ids are distinct and are not renumbered after the drop.
C15_SynthesizedIdIsPosition ==
  (ppc = "calculate" /\ ~HasColumn(id)) =>
    /\ \A p \in Records :
         LET rec == Apps(p[1])[p[2]]
         IN  /\ rec.id.v \in 1..RowCount
             /\ Survives(rec.id.v)
             /\ HasColumn(debt_to_income_ratio) =>
                  rec.ratio = Raw(rec.id.v, debt_to_income_ratio)
             /\ grouped_applicants[p[1]].group = ExpectedKey(rec.id.v)
    /\ \A i \in 1..RowCount :
         Survives(i) =>
           Cardinality({p \in Records : Apps(p[1])[p[2]].id.v = i}) = 1

\* the first of two rows is dropped and the second keeps the id 2
C15_Witness ==
  /\ ppc = "calculate"
  /\ ~HasColumn(id)
  /\ RowCount = 2
  /\ Raw(1, debt_to_income_ratio) = Text
  /\ Raw(2, debt_to_income_ratio) = Num(1)
  /\ Cardinality(Records) = 1
  /\ \A p \in Records : Apps(p[1])[p[2]].id = Num(2)

\* C16: with a ratio column, dropping rows never makes the normalizer fail,
\* and the cohorts hold exactly the rows whose ratio is a number: each such
\* row once, in the cohort of its key, and no other row anywhere.
C16_CohortsPartitionNumericRows ==
  (Normalized /\ SchemaComplete /\ HasColumn(debt_to_income_ratio)) =>
    /\ ppc = "calculate"
    /\ raised = NoError
    /\ Cardinality(Records) = Cardinality({i \in 1..RowCount : Survives(i)})
    /\ Traceable =>
         \A i \in 1..RowCount :
           IF Survives(i)
             THEN /\ \A g \in CohortsHolding(i) :
                       grouped_applicants[g].group = ExpectedKey(i)
                  /\ Cardinality({p \in Records :
                                    Apps(p[1])[p[2]].id.v = RowId(i)}) = 1
             ELSE CohortsHolding(i) = {}

\* a numeric row kept next to a row with a non-numeric ratio, dropped
C16_Witness ==
  /\ ppc = "calculate"
  /\ HasColumn(debt_to_income_ratio)
  /\ RowCount = 2
  /\ Traceable
  /\ Raw(1, debt_to_income_ratio) = Num(1)
  /\ Raw(2, debt_to_income_ratio) \in {Text, Absent}
  /\ Cardinality(CohortsHolding(1)) = 1
  /\ CohortsHolding(2) = {}

\* -------------------------------------------------- claims: the statistics
\* the members of group g whose entry in the returned decisions is "approved"
DecidedApproved(g) ==
  Cardinality({i \in 1..Len(Apps(g)) :
                 returned.decisions[Apps(g)[i].id.v] = "approved"})

\* the members of group g whose ratio is <= the returned threshold of g
WithinThreshold(g) ==
  Cardinality({i \in 1..Len(Apps(g)) : Leq(RatioOf(g, i), Threshold(g))})

\* print_statistics has printed its rows for the groups of the call
HasPrinted == pc = "returned" /\ printed # <<>>

\* display_statistics_table_and_graph has been called
HasDisplayed == pc = "returned" /\ displayed.shown

\* the rows of the displayed table for group g
DisplayedRows(g) ==
  {k \in 1..Len(displayed.rows) :
     displayed.rows[k].group = grouped_applicants[g].group}

\* row reports `count` approved members of group g and the rate count / size
Reports(row, g, count) ==
  /\ row.applicants = Len(Apps(g))
  /\ row.approved = count
  /\ row.rate.num * Len(Apps(g)) = count * row.rate.den

\* C17 (as claimed): for every non-empty group, the approved count of both
\* statistics outputs is the number of the group's members whose entry in
\* the returned decisions is "approved", and the rate is that count divided
\* by the size of the group.
C17_StatisticsProjectDecisions ==
  \A g \in NonEmpty :
    /\ HasPrinted => Reports(printed[g], g, DecidedApproved(g))
    /\ HasDisplayed =>
         /\ DisplayedRows(g) # {}
         /\ \A k \in DisplayedRows(g) :
              Reports(displayed.rows[k], g, DecidedApproved(g))

\* C17 (amended): the approved count of both outputs is the number of the
\* group's members whose ratio is <= the returned threshold of the group,
\* the rate is that count divided by the size of the group, and the count is
\* the number of members with an "approved" entry when ids are distinct.
C17_StatisticsProjectThresholds ==
  \A g \in NonEmpty :
    /\ HasPrinted => Reports(printed[g], g, WithinThreshold(g))
    /\ HasDisplayed =>
         /\ DisplayedRows(g) # {}
         /\ \A k \in DisplayedRows(g) :
              Reports(displayed.rows[k], g, WithinThreshold(g))
    /\ (pc = "returned" /\ IdsDistinct) => WithinThreshold(g) = DecidedApproved(g)

\* both outputs made for a group of two with distinct ids, one at the
\* threshold and approved, one above it and denied
C17_Witness ==
  /\ HasPrinted
  /\ HasDisplayed
  /\ IdsDistinct
  /\ \E g \in NonEmpty :
       /\ Len(Apps(g)) = 2
       /\ printed[g].approved = 1
       /\ DecidedApproved(g) = 1
       /\ \E i \in 1..2 : RatioOf(g, i) = Threshold(g)
       /\ \E k \in DisplayedRows(g) : displayed.rows[k].approved = 1

\* row shows 0 applicants, 0 approved and the rate 0%
ZeroRow(row) == row.applicants = 0 /\ row.approved = 0 /\ row.rate.num = 0

\* C18: each statistics output has, for every group without applicants, a
\* row of its own showing 0 applicants, 0 approved and 0%, and no output
\* fails on such a group.
C18_EmptyCohortReported ==
  \A g \in 1..Len(grouped_applicants) :
    Apps(g) = <<>> =>
      /\ HasPrinted =>
           printed[g].group = grouped_applicants[g].group /\ ZeroRow(printed[g])
      /\ HasDisplayed =>
           /\ displayed.error = ""
           /\ \E k \in DisplayedRows(g) : ZeroRow(displayed.rows[k])

Members ==
  {p \in (1..Len(grouped_applicants)) \X (1..MaxApplicants + 1) :
     p[2] <= Len(Apps(p[1]))}

\* C20: the returned decisions have exactly one entry per distinct id among
\* the applicants; the entry of an id is the decision of the last applicant
\* carrying it, in the order of the groups and of the applicants within a
\* group; and there are as many entries as applicants exactly when the ids
\* are pairwise distinct.
C20_OneDecisionPerId ==
  pc = "returned" =>
    /\ DOMAIN returned.decisions = {Apps(p[1])[p[2]].id.v : p \in Members}
    /\ \A p \in Members :
         LastOfId(p[1], p[2]) =>
           returned.decisions[Apps(p[1])[p[2]].id.v] =
             (IF Leq(RatioOf(p[1], p[2]), Threshold(p[1]))
                THEN "approved" ELSE "denied")
    /\ (Cardinality(DOMAIN returned.decisions) = Cardinality(Members))
         <=> IdsDistinct

\* an id carried in two groups: within its threshold in the first, above it
\* in the second, and stored as denied
C20_Witness ==
  /\ pc = "returned"
  /\ \E p, q \in Members :
       /\ p[1] < q[1]
       /\ Apps(p[1])[p[2]].id = Apps(q[1])[q[2]].id
       /\ LastOfId(q[1], q[2])
       /\ Leq(RatioOf(p[1], p[2]), Threshold(p[1]))
       /\ ~Leq(RatioOf(q[1], q[2]), Threshold(q[1]))
       /\ returned.decisions[Apps(q[1])[q[2]].id.v] = "denied"
  /\ Cardinality(DOMAIN returned.decisions) < Cardinality(Members)

====
